---- MODULE Spec2Model ----
(***************************************************************************)
(* The write/commit core of the scorch index (index/scorch/scorch.go):     *)
(* Batch -> analysis -> prepareSegment -> introductions channel ->         *)
(* introduction loop -> root snapshot, and Reader.                         *)
(*                                                                         *)
(* The introduction loop (mainLoop), the IndexSnapshot type, the mem       *)
(* segment and the analysis queue live in files that are not part of the   *)
(* source tree at hand; they are modelled from the specification text      *)
(* (sections 3, 4.1 and 4.2).                                              *)
(***************************************************************************)
EXTENDS Integers, Sequences, FiniteSets, TLC

(* ------------------------------- bounds -------------------------------- *)
\* number of Batch calls made during a run
MaxBatches == 2
\* number of Reader() calls made during a run
MaxReaders == 1
\* size of the analysis worker pool
NumWorkers == 1

Calls == 1..MaxBatches

\* the caller threads that run Batch concurrently
Callers == {"c1", "c2"}

\* external document IDs, internal keys and internal values of the inputs
DocIDs == {"a", "b"}
Keys == {"k"}
Vals == {"v"}
\* batch.IndexOps[id]: a document (upsert) or nil (delete);
\* batch.InternalOps[key]: a value (set) or nil (delete)
Doc == "doc"
Nil == "nil"

\* the error slot of a call that has not returned
NotReturned == "none"

EmptyMap == [x \in {} |-> Nil]
Map1(k, v) == [x \in {k} |-> v]

\* the batches Update, Delete, SetInternal and DeleteInternal build
\* (lines 60-70 and 158-168)
UpdateBatch(d) == [IndexOps |-> Map1(d, Doc), InternalOps |-> EmptyMap]
DeleteBatch(d) == [IndexOps |-> Map1(d, Nil), InternalOps |-> EmptyMap]
SetInternalBatch(k, v) == [IndexOps |-> EmptyMap, InternalOps |-> Map1(k, v)]
DeleteInternalBatch(k) == [IndexOps |-> EmptyMap, InternalOps |-> Map1(k, Nil)]
EmptyBatch == [IndexOps |-> EmptyMap, InternalOps |-> EmptyMap]

\* the batches a caller may submit: the empty batch, the single-operation
\* batches, an upsert together with an internal set, and two upserts
BatchInputs ==
    {EmptyBatch}
    \cup {UpdateBatch(d) : d \in DocIDs}
    \cup {DeleteBatch(d) : d \in DocIDs}
    \cup {SetInternalBatch(k, v) : k \in Keys, v \in Vals}
    \cup {DeleteInternalBatch(k) : k \in Keys}
    \cup {[IndexOps |-> Map1("a", Doc), InternalOps |-> Map1("k", "v")],
          [IndexOps |-> [x \in DocIDs |-> Doc], InternalOps |-> EmptyMap]}

\* *float64 endpoints of a numeric range: nil or the address of a float;
\* p1 and p2 point to equal values, p3 to a different one
FloatAddrs == {"p1", "p2", "p3"}
FloatAt == [a \in FloatAddrs |-> IF a = "p3" THEN 5 ELSE 0]
FloatPtrs == {Nil} \cup FloatAddrs
\* *bool inclusion flags, field names and boosts of the inputs
BoolPtrs == {Nil, "true", "false"}
Fields == {"", "f"}
Boosts == {2}
\* no query has been constructed
NoQuery == [Min |-> Nil, Max |-> Nil, InclusiveMin |-> Nil, InclusiveMax |-> Nil,
            Field |-> "none", Boost |-> Nil]

(* ------------------------------- state --------------------------------- *)
VARIABLES
    opened,           \* Open has run (channels made, loop started)
    closed,           \* Close has run (closeCh is closed)
    nextSegmentID,    \* Scorch.nextSegmentID
    rootLock,         \* Scorch.rootLock: [readers: Nat, writer: BOOLEAN]
    root,             \* Scorch.root: address of the root IndexSnapshot
    snapshots,        \* heap of IndexSnapshot objects, indexed by address
    pc,               \* per Batch call: position in Batch/prepareSegment
    batch,            \* per Batch call: the *index.Batch argument
    toQueue,          \* per Batch call: documents the dispatch goroutine still has to queue
    inAnalysis,       \* analysis work taken by a worker: set of <<call, docID>>
    resultChan,       \* per Batch call: the buffered result channel
    analysisResults,  \* per Batch call: results received so far
    introduction,     \* per Batch call: the segmentIntroduction it built
    applied,          \* per Batch call: introduction.applied has been closed
    batchErr,         \* per Batch call: the error Batch returned
    loopPc,           \* per introduction loop: position in mainLoop
    loopNext,         \* per introduction loop: call whose introduction it received
    loopNew,          \* per introduction loop: the snapshot it built
    readers,          \* Reader handles returned so far
    issued,           \* history: segment IDs in the order they were handed out
    published,        \* history: calls in the order their snapshots became root
    enqueuedAtStart,  \* history: per call, the calls already enqueued when it was submitted
    query,            \* the NumericRangeQuery under validation
    validateErr       \* what Validate returned for it

vars == <<opened, closed, nextSegmentID, rootLock, root, snapshots, pc, batch,
          toQueue, inAnalysis, resultChan, analysisResults, introduction, applied,
          batchErr, loopPc, loopNext, loopNew, readers, issued, published,
          enqueuedAtStart, query, validateErr>>

batchVars == <<pc, batch, toQueue, inAnalysis, resultChan, analysisResults,
               introduction, applied, batchErr>>
queryVars == <<query, validateErr>>
loopVars == <<loopPc, loopNext, loopNew>>
histVars == <<issued, published, enqueuedAtStart>>

(* --------------------------- pure functions ---------------------------- *)
\* mutant: deletes are counted as updates too
NumUpdatesAllOps(ops) == Cardinality(DOMAIN ops)

\* mutant: the collection loop stops one result short
NumUpdatesShort(ops) ==
    LET n == Cardinality({d \in DOMAIN ops : ops[d] # Nil})
    IN IF n > 0 THEN n - 1 ELSE 0

\* Batch, lines 79-90: numUpdates counts the non-nil documents
NumUpdates(ops) == Cardinality({d \in DOMAIN ops : ops[d] # Nil})

\* Batch, lines 81-90: ids holds every key of batch.IndexOps, upserts and
\* deletes alike. Go's map iteration order is unspecified and the only
\* consumer (DocNumbers) asks for membership, so ids is kept as a set.
BatchIds(ops) == DOMAIN ops

\* Batch, lines 94-102: the documents the dispatch goroutine queues
Upserts(ops) == {d \in DOMAIN ops : ops[d] # Nil}

\* mem.New / mem.NewFromAnalyzedDocs: a segment is the sequence of the
\* external IDs of its documents; document numbers are 0 .. Len-1
MemNew == <<>>
NewFromAnalyzedDocs(results) == results

\* Batch, lines 118-123
NewSegment(results) ==
    IF Len(results) > 0 THEN NewFromAnalyzedDocs(results) ELSE MemNew

\* segment.DocNumbers(ids): the document numbers the segment holds for ids
DocNumbers(seg, ids) == {n \in 0..(Len(seg) - 1) : seg[n + 1] \in ids}

\* mutant: the counter is read but not advanced
AddUint64NoAdd(v, d) == v

\* atomic.AddUint64(&v, d) returns the new value
AddUint64(v, d) == v + d

\* mutant: the batch's internal ops are not passed on
NewIntroductionNoInternal(id, data, ids, internalOps) ==
    [id |-> id, data |-> data, ids |-> ids, obsoletes |-> EmptyMap,
     internal |-> EmptyMap]

\* prepareSegment, lines 133-140
NewIntroduction(id, data, ids, internalOps) ==
    [id |-> id, data |-> data, ids |-> ids, obsoletes |-> EmptyMap,
     internal |-> internalOps]

NoIntroduction == [id |-> 0, data |-> MemNew, ids |-> {}, obsoletes |-> EmptyMap,
                   internal |-> EmptyMap]

\* mutant: every document of every root segment is reported obsolete
ObsoletesWholeSegment(snap, ids) ==
    LET n == Len(snap.segment)
        segIds == {snap.segment[i].id : i \in 1..n}
        At(sid) == CHOOSE i \in 1..n : snap.segment[i].id = sid
    IN [sid \in segIds |-> 0..(Len(snap.segment[At(sid)].segment) - 1)]

\* prepareSegment, lines 144-147: one obsoletes entry per segment of the root
Obsoletes(snap, ids) ==
    LET n == Len(snap.segment)
        segIds == {snap.segment[i].id : i \in 1..n}
        At(sid) == CHOOSE i \in 1..n : snap.segment[i].id = sid
    IN [sid \in segIds |-> DocNumbers(snap.segment[At(sid)].segment, ids)]

\* NewScorch, line 43: root: &IndexSnapshot{}
EmptySnapshot == [segment |-> <<>>, internal |-> EmptyMap, version |-> 0]

\* mainLoop, "Apply" (spec 4.2): previous segments with the obsoletes this
\* introduction computed unioned in, the new segment appended with an empty
\* bitmap, internal deltas folded in, version + 1
FoldInternal(prev, ops) ==
    LET keep == (DOMAIN prev \ DOMAIN ops) \cup {k \in DOMAIN ops : ops[k] # Nil}
    IN [k \in keep |-> IF k \in DOMAIN ops THEN ops[k] ELSE prev[k]]

IntroduceSegment(prev, next) ==
    LET n == Len(prev.segment)
        Delta(sid) == IF sid \in DOMAIN next.obsoletes THEN next.obsoletes[sid] ELSE {}
    IN [segment |->
            [i \in 1..(n + 1) |->
                IF i <= n
                THEN [prev.segment[i] EXCEPT !.deleted = @ \cup Delta(prev.segment[i].id)]
                ELSE [id |-> next.id, segment |-> next.data, deleted |-> {}]],
        internal |-> FoldInternal(prev.internal, next.internal),
        version |-> prev.version + 1]

\* mutant: the root snapshot is overwritten in place
PublishInPlace(heap, rootAddr, snap) ==
    [heap |-> [heap EXCEPT ![rootAddr] = snap], root |-> rootAddr]

\* mainLoop allocates a fresh IndexSnapshot and makes it the root
PublishSnapshot(heap, rootAddr, snap) ==
    [heap |-> Append(heap, snap), root |-> Len(heap) + 1]

\* mutant: the handle pins the snapshot the index was constructed with
NewReaderInitialRoot(rootAddr) == [root |-> 1]

\* Reader, lines 175-177: &Reader{root: s.root}
NewReader(rootAddr) == [root |-> rootAddr]

\* mutant: two introduction loops are started
TwoLoops == {1, 2}

\* Open, line 51: one introduction loop is started
MainLoops == {1}
AllLoops == {1, 2}

\* NewNumericRangeInclusiveQuery, numeric_range.go lines 43-50
NewNumericRangeInclusiveQuery(min, max, minInclusive, maxInclusive) ==
    [Min |-> min, Max |-> max, InclusiveMin |-> minInclusive,
     InclusiveMax |-> maxInclusive, Field |-> "", Boost |-> Nil]

\* NewNumericRangeQuery, numeric_range.go lines 35-37
NewNumericRangeQuery(min, max) == NewNumericRangeInclusiveQuery(min, max, Nil, Nil)

ErrMinOrMax == "numeric range query must specify min or max"

\* mutant: the nil test is dropped, equal endpoints are rejected
ValidateEqualEndpoints(q) == IF q.Min = q.Max THEN ErrMinOrMax ELSE Nil

\* NumericRangeQuery.Validate, numeric_range.go lines 69-74: q.Min == nil
\* and the pointer comparison q.Min == q.Max
Validate(q) == IF q.Min = Nil /\ q.Min = q.Max THEN ErrMinOrMax ELSE Nil

(* -------------------------------- Init --------------------------------- *)
\* NewScorch, lines 37-46
Init ==
    /\ opened = FALSE
    /\ closed = FALSE
    /\ nextSegmentID = 0
    /\ rootLock = [readers |-> 0, writer |-> FALSE]
    /\ snapshots = <<EmptySnapshot>>
    /\ root = 1
    /\ pc = [p \in Calls |-> "idle"]
    /\ batch = [p \in Calls |-> EmptyBatch]
    /\ toQueue = [p \in Calls |-> {}]
    /\ inAnalysis = {}
    /\ resultChan = [p \in Calls |-> <<>>]
    /\ analysisResults = [p \in Calls |-> <<>>]
    /\ introduction = [p \in Calls |-> NoIntroduction]
    /\ applied = [p \in Calls |-> FALSE]
    /\ batchErr = [p \in Calls |-> NotReturned]
    /\ loopPc = [l \in AllLoops |-> "off"]
    /\ loopNext = [l \in AllLoops |-> 0]
    /\ loopNew = [l \in AllLoops |-> EmptySnapshot]
    /\ readers = <<>>
    /\ issued = <<>>
    /\ published = <<>>
    /\ enqueuedAtStart = [p \in Calls |-> {}]
    /\ query = NoQuery
    /\ validateErr = NotReturned

(* ------------------------------- actions ------------------------------- *)
\* Open, lines 48-53 (called once in the index's lifetime)
Open ==
    /\ ~opened
    /\ opened' = TRUE
    /\ loopPc' = [l \in AllLoops |-> IF l \in MainLoops THEN "recv" ELSE "off"]
    /\ UNCHANGED <<closed, queryVars, nextSegmentID, rootLock, root, snapshots,
                   batchVars, loopNext, loopNew, readers, histVars>>

\* calls whose introduction has been received from the introductions channel
Enqueued == {q \in Calls : pc[q] \in {"wait", "done"}}

\* calls that have been submitted and have not returned
InFlight == {q \in Calls : pc[q] \notin {"idle", "done"}}

\* Batch, lines 73-102: the caller enters Batch; ids and numUpdates are
\* computed, the result channel is made and the dispatch goroutine started.
\* Calls are numbered in the order they are submitted; the index is opened
\* before it is used, and each caller thread runs one Batch at a time.
BatchStart(p, b) ==
    /\ opened
    /\ pc[p] = "idle"
    /\ Cardinality(InFlight) < Cardinality(Callers)
    /\ \A q \in Calls : q < p => pc[q] # "idle"
    /\ pc' = [pc EXCEPT ![p] = "analysis"]
    /\ batch' = [batch EXCEPT ![p] = b]
    /\ toQueue' = [toQueue EXCEPT ![p] = Upserts(b.IndexOps)]
    /\ enqueuedAtStart' = [enqueuedAtStart EXCEPT ![p] = Enqueued]
    /\ UNCHANGED <<opened, closed, queryVars, nextSegmentID, rootLock, root, snapshots, inAnalysis,
                   resultChan, analysisResults, introduction, applied, batchErr, loopVars,
                   readers, issued, published>>

\* Batch, lines 94-102 with AnalysisQueue.Queue: the dispatch goroutine
\* hands one document to a free analysis worker
Dispatch(p, d) ==
    /\ d \in toQueue[p]
    /\ Cardinality(inAnalysis) < NumWorkers
    /\ toQueue' = [toQueue EXCEPT ![p] = @ \ {d}]
    /\ inAnalysis' = inAnalysis \cup {<<p, d>>}
    /\ UNCHANGED <<opened, closed, queryVars, nextSegmentID, rootLock, root, snapshots, pc, batch,
                   resultChan, analysisResults, introduction, applied, batchErr, loopVars,
                   readers, histVars>>

\* analysis worker: Analyze (lines 187-210) and the send on the work's
\* result channel, which has room for len(batch.IndexOps) results (line 77)
Analyze(p, d) ==
    /\ <<p, d>> \in inAnalysis
    /\ Len(resultChan[p]) < Cardinality(DOMAIN batch[p].IndexOps)
    /\ inAnalysis' = inAnalysis \ {<<p, d>>}
    /\ resultChan' = [resultChan EXCEPT ![p] = Append(@, d)]
    /\ UNCHANGED <<opened, closed, queryVars, nextSegmentID, rootLock, root, snapshots, pc, batch,
                   toQueue, analysisResults, introduction, applied, batchErr, loopVars,
                   readers, histVars>>

\* Batch, lines 108-113: receive one analysis result
Collect(p) ==
    /\ pc[p] = "analysis"
    /\ Len(analysisResults[p]) < NumUpdates(batch[p].IndexOps)
    /\ Len(resultChan[p]) > 0
    /\ analysisResults' = [analysisResults EXCEPT ![p] = Append(@, Head(resultChan[p]))]
    /\ resultChan' = [resultChan EXCEPT ![p] = Tail(@)]
    /\ UNCHANGED <<opened, closed, queryVars, nextSegmentID, rootLock, root, snapshots, pc, batch,
                   toQueue, inAnalysis, introduction, applied, batchErr, loopVars,
                   readers, histVars>>

\* Batch, lines 114-124 and prepareSegment, lines 132-140: all results are
\* in; the segment is built and the introduction created with a fresh ID
PrepareSegment(p) ==
    /\ pc[p] = "analysis"
    /\ Len(analysisResults[p]) = NumUpdates(batch[p].IndexOps)
    /\ LET id == AddUint64(nextSegmentID, 1)
       IN /\ nextSegmentID' = id
          /\ introduction' = [introduction EXCEPT ![p] =
                 NewIntroduction(id, NewSegment(analysisResults[p]),
                                 BatchIds(batch[p].IndexOps), batch[p].InternalOps)]
          /\ issued' = Append(issued, id)
    /\ pc' = [pc EXCEPT ![p] = "rlock"]
    /\ UNCHANGED <<opened, closed, queryVars, rootLock, root, snapshots, batch, toQueue, inAnalysis,
                   resultChan, analysisResults, applied, batchErr, loopVars, readers,
                   published, enqueuedAtStart>>

\* prepareSegment, line 143: s.rootLock.RLock()
RLock(p) ==
    /\ pc[p] = "rlock"
    /\ ~rootLock.writer
    /\ rootLock' = [rootLock EXCEPT !.readers = @ + 1]
    /\ pc' = [pc EXCEPT ![p] = "obsoletes"]
    /\ UNCHANGED <<opened, closed, queryVars, nextSegmentID, root, snapshots, batch, toQueue,
                   inAnalysis, resultChan, analysisResults, introduction, applied, batchErr,
                   loopVars, readers, histVars>>

\* prepareSegment, lines 144-148: the obsoletes loop over the root's
\* segments, then RUnlock
ComputeObsoletes(p) ==
    /\ pc[p] = "obsoletes"
    /\ introduction' = [introduction EXCEPT ![p].obsoletes =
                            Obsoletes(snapshots[root], introduction[p].ids)]
    /\ rootLock' = [rootLock EXCEPT !.readers = @ - 1]
    /\ pc' = [pc EXCEPT ![p] = "send"]
    /\ UNCHANGED <<opened, closed, queryVars, nextSegmentID, root, snapshots, batch, toQueue,
                   inAnalysis, resultChan, analysisResults, applied, batchErr, loopVars,
                   readers, histVars>>

\* prepareSegment, line 150 and mainLoop's receive: the introductions
\* channel is unbuffered, so the send completes when a loop receives
Introduce(p, l) ==
    /\ opened
    /\ pc[p] = "send"
    /\ loopPc[l] = "recv"
    /\ pc' = [pc EXCEPT ![p] = "wait"]
    /\ loopNext' = [loopNext EXCEPT ![l] = p]
    /\ loopPc' = [loopPc EXCEPT ![l] = "build"]
    /\ UNCHANGED <<opened, closed, queryVars, nextSegmentID, rootLock, root, snapshots, batch, toQueue,
                   inAnalysis, resultChan, analysisResults, introduction, applied, batchErr,
                   loopNew, readers, histVars>>

\* mainLoop, apply: build the next snapshot from the current root
LoopBuild(l) ==
    /\ loopPc[l] = "build"
    /\ loopNew' = [loopNew EXCEPT ![l] =
                       IntroduceSegment(snapshots[root], introduction[loopNext[l]])]
    /\ loopPc' = [loopPc EXCEPT ![l] = "lock"]
    /\ UNCHANGED <<opened, closed, queryVars, nextSegmentID, rootLock, root, snapshots, batchVars,
                   loopNext, readers, histVars>>

\* mainLoop, publish: s.rootLock.Lock()
LoopLock(l) ==
    /\ loopPc[l] = "lock"
    /\ rootLock.readers = 0
    /\ ~rootLock.writer
    /\ rootLock' = [rootLock EXCEPT !.writer = TRUE]
    /\ loopPc' = [loopPc EXCEPT ![l] = "swap"]
    /\ UNCHANGED <<opened, closed, queryVars, nextSegmentID, root, snapshots, batchVars, loopNext,
                   loopNew, readers, histVars>>

\* mainLoop, publish: swap the root pointer, s.rootLock.Unlock()
LoopSwap(l) ==
    /\ loopPc[l] = "swap"
    /\ LET pub == PublishSnapshot(snapshots, root, loopNew[l])
       IN /\ snapshots' = pub.heap
          /\ root' = pub.root
    /\ rootLock' = [rootLock EXCEPT !.writer = FALSE]
    /\ published' = Append(published, loopNext[l])
    /\ loopPc' = [loopPc EXCEPT ![l] = "signal"]
    /\ UNCHANGED <<opened, closed, queryVars, nextSegmentID, batchVars, loopNext, loopNew, readers,
                   issued, enqueuedAtStart>>

\* mainLoop, publish: close(next.applied)
LoopSignal(l) ==
    /\ loopPc[l] = "signal"
    /\ applied' = [applied EXCEPT ![loopNext[l]] = TRUE]
    /\ loopPc' = [loopPc EXCEPT ![l] = "recv"]
    /\ UNCHANGED <<opened, closed, queryVars, nextSegmentID, rootLock, root,
                   snapshots, pc, batch, toQueue, inAnalysis, resultChan,
                   analysisResults, introduction, batchErr, loopNext, loopNew,
                   readers, histVars>>

\* mutant: prepareSegment does not wait for the applied signal
NotWaiting(p) == TRUE

\* prepareSegment, lines 153-155 and Batch, line 126
AppliedSignalled(p) == applied[p]

BatchReturn(p) ==
    /\ pc[p] = "wait"
    /\ AppliedSignalled(p)
    /\ pc' = [pc EXCEPT ![p] = "done"]
    /\ batchErr' = [batchErr EXCEPT ![p] = Nil]
    /\ UNCHANGED <<opened, closed, queryVars, nextSegmentID, rootLock, root,
                   snapshots, batch, toQueue, inAnalysis, resultChan,
                   analysisResults, introduction, applied, loopVars, readers,
                   histVars>>

\* Reader, lines 172-178: RLock, pin s.root, RUnlock (deferred). The handle
\* also records, as history, the root's contents at the call and the Batch
\* calls that had returned by then.
Reader ==
    /\ opened
    /\ Len(readers) < MaxReaders
    /\ ~rootLock.writer
    /\ readers' = Append(readers,
                         [handle |-> NewReader(root),
                          atCall |-> snapshots[root],
                          returned |-> {q \in Calls : pc[q] = "done"}])
    /\ UNCHANGED <<opened, closed, queryVars, nextSegmentID, rootLock, root, snapshots, batchVars,
                   loopVars, histVars>>

\* Close, lines 55-58: close(s.closeCh); closing a closed or nil channel
\* panics, so Close runs once, on an opened index
Close ==
    /\ opened
    /\ ~closed
    /\ closed' = TRUE
    /\ UNCHANGED <<opened, queryVars, nextSegmentID, rootLock, root, snapshots,
                   batchVars, loopVars, readers, histVars>>

\* mainLoop, termination: waiting for the next introduction, the loop sees
\* closeCh closed and exits
LoopExit(l) ==
    /\ loopPc[l] = "recv"
    /\ closed
    /\ loopPc' = [loopPc EXCEPT ![l] = "exited"]
    /\ UNCHANGED <<opened, closed, queryVars, nextSegmentID, rootLock, root,
                   snapshots, batchVars, loopNext, loopNew, readers, histVars>>

scorchVars == <<opened, closed, nextSegmentID, rootLock, root, snapshots,
                batchVars, loopVars, readers, histVars>>

\* a caller constructs a query with NewNumericRangeQuery
ConstructQuery(min, max) ==
    /\ query' = NewNumericRangeQuery(min, max)
    /\ validateErr' = NotReturned
    /\ UNCHANGED scorchVars

\* a caller constructs a query with NewNumericRangeInclusiveQuery
ConstructInclusiveQuery(min, max, minInclusive, maxInclusive) ==
    /\ query' = NewNumericRangeInclusiveQuery(min, max, minInclusive, maxInclusive)
    /\ validateErr' = NotReturned
    /\ UNCHANGED scorchVars

\* SetBoost, numeric_range.go lines 52-55
SetBoost(b) ==
    /\ query # NoQuery
    /\ query' = [query EXCEPT !.Boost = b]
    /\ validateErr' = NotReturned
    /\ UNCHANGED scorchVars

\* SetField, numeric_range.go lines 57-59
SetField(f) ==
    /\ query # NoQuery
    /\ query' = [query EXCEPT !.Field = f]
    /\ validateErr' = NotReturned
    /\ UNCHANGED scorchVars

\* a caller validates the query
ValidateQuery ==
    /\ query # NoQuery
    /\ validateErr' = Validate(query)
    /\ UNCHANGED <<query, scorchVars>>

\* the steps of the goroutine that called Batch
BatchStep(p) ==
    \/ Collect(p)
    \/ PrepareSegment(p)
    \/ RLock(p)
    \/ ComputeObsoletes(p)
    \/ \E l \in AllLoops : Introduce(p, l)
    \/ BatchReturn(p)

\* the steps of an introduction loop on an index that is not closed
LoopStep(l) == LoopBuild(l) \/ LoopLock(l) \/ LoopSwap(l) \/ LoopSignal(l)

Next ==
    \/ Open
    \/ \E p \in Calls, b \in BatchInputs : BatchStart(p, b)
    \/ \E p \in Calls, d \in DocIDs : Dispatch(p, d)
    \/ \E p \in Calls, d \in DocIDs : Analyze(p, d)
    \/ \E p \in Calls : Collect(p)
    \/ \E p \in Calls : PrepareSegment(p)
    \/ \E p \in Calls : RLock(p)
    \/ \E p \in Calls : ComputeObsoletes(p)
    \/ \E p \in Calls, l \in AllLoops : Introduce(p, l)
    \/ \E l \in AllLoops : LoopBuild(l)
    \/ \E l \in AllLoops : LoopLock(l)
    \/ \E l \in AllLoops : LoopSwap(l)
    \/ \E l \in AllLoops : LoopSignal(l)
    \/ \E p \in Calls : BatchReturn(p)
    \/ Reader

Spec == Init /\ [][Next]_vars

\* every goroutine that can take a step eventually takes one: the callers
\* inside Batch, the dispatch goroutines, the analysis workers and the loop
Fairness ==
    /\ \A p \in Calls : WF_vars(BatchStep(p))
    /\ \A p \in Calls : WF_vars(\E d \in DocIDs : Dispatch(p, d))
    /\ WF_vars(\E p \in Calls, d \in DocIDs : Analyze(p, d))
    /\ \A l \in AllLoops : WF_vars(LoopStep(l))

\* an opened index that is never closed, under fair scheduling
FairSpec == Spec /\ Fairness

\* the query layer: constructing, changing and validating a numeric range
NextQuery ==
    \/ \E min \in FloatPtrs, max \in FloatPtrs : ConstructQuery(min, max)
    \/ \E min \in FloatPtrs, max \in FloatPtrs,
          minInclusive \in BoolPtrs, maxInclusive \in BoolPtrs :
            ConstructInclusiveQuery(min, max, minInclusive, maxInclusive)
    \/ \E b \in Boosts : SetBoost(b)
    \/ \E f \in Fields : SetField(f)
    \/ ValidateQuery

SpecQuery == Init /\ [][NextQuery]_vars

\* the index with Close
NextClose ==
    \/ Next
    \/ Close
    \/ \E l \in AllLoops : LoopExit(l)

SpecClose == Init /\ [][NextClose]_vars

\* the index with Close, under fair scheduling; a loop that sees closeCh
\* closed does exit
FairSpecClose ==
    /\ SpecClose
    /\ Fairness
    /\ \A l \in AllLoops : WF_vars(LoopExit(l))

(* ------------------------- reading a snapshot -------------------------- *)
SegIds(snap) == {snap.segment[i].id : i \in 1..Len(snap.segment)}

\* the call whose introduction carries segment ID sid
CallOf(sid) == CHOOSE p \in Calls : introduction[p].id = sid

\* the introduction of call p exists and its segment is in snap
HasSegment(snap, p) == introduction[p].id # 0 /\ introduction[p].id \in SegIds(snap)

\* live documents of snap: <<segment ID, document number, external ID>>
LiveDocs(snap) ==
    UNION {{<<snap.segment[i].id, n, snap.segment[i].segment[n + 1]>> :
               n \in (0..(Len(snap.segment[i].segment) - 1)) \ snap.segment[i].deleted} :
           i \in 1..Len(snap.segment)}

LiveFor(snap, d) == {x \in LiveDocs(snap) : x[3] = d}

\* the snapshot a Reader handle shows
ReaderSnapshot(r) == snapshots[r.handle.root]

\* the version of the first snapshot that holds the segment of call p
FirstVersion(p) ==
    LET with == {a \in 1..Len(snapshots) : HasSegment(snapshots[a], p)}
    IN snapshots[CHOOSE a \in with : \A b \in with : a <= b].version

Published(p) == \E i \in 1..Len(published) : published[i] = p

(* ------------------------------- claims -------------------------------- *)
\* what a snapshot must hold if it carries exactly the effects of the
\* batches whose segments are in it, and nothing of any other batch
ExpectedDeleted(snap, i) ==
    UNION {LET o == introduction[CallOf(snap.segment[j].id)].obsoletes
           IN IF snap.segment[i].id \in DOMAIN o THEN o[snap.segment[i].id] ELSE {} :
           j \in (i + 1)..Len(snap.segment)}

ExpectedInternal(snap) ==
    LET Ops(j) == batch[CallOf(snap.segment[j].id)].InternalOps
        Setters(k) == {j \in 1..Len(snap.segment) : k \in DOMAIN Ops(j)}
        Last(k) == CHOOSE j \in Setters(k) : \A j2 \in Setters(k) : j2 <= j
        keep == {k \in Keys : Setters(k) # {} /\ Ops(Last(k))[k] # Nil}
    IN [k \in keep |-> Ops(Last(k))[k]]

ExactlyItsBatches(snap) ==
    /\ \A i \in 1..Len(snap.segment) :
          LET p == CallOf(snap.segment[i].id)
          IN /\ snap.segment[i].segment = introduction[p].data
             /\ {snap.segment[i].segment[n] : n \in 1..Len(snap.segment[i].segment)}
                    = Upserts(batch[p].IndexOps)
             /\ snap.segment[i].deleted = ExpectedDeleted(snap, i)
    /\ snap.internal = ExpectedInternal(snap)

\* C1: the snapshot pinned by any Reader holds, for every batch, either all
\* of its effects (its segment with every upserted document, every obsoletes
\* entry it computed, every internal op) or none of them: it is exactly the
\* result of the batches whose segments it lists
C1_AllOrNothing ==
    \A r \in 1..Len(readers) : ExactlyItsBatches(ReaderSnapshot(readers[r]))

\* a Reader holds a snapshot with a batch that obsoleted a document of an
\* older segment and carried an internal op
C1_Witness ==
    \E r \in 1..Len(readers), p \in Calls :
        /\ HasSegment(ReaderSnapshot(readers[r]), p)
        /\ \E sid \in DOMAIN introduction[p].obsoletes : introduction[p].obsoletes[sid] # {}
        /\ batch[p].InternalOps # EmptyMap

\* C2: in every published snapshot an external ID that occurs in two
\* segments is marked deleted in every segment but the last one holding it
C2_VisibleAtMostOnce ==
    \A a \in 1..Len(snapshots) :
        LET snap == snapshots[a]
        IN \A i \in 1..Len(snap.segment), j \in 1..Len(snap.segment) :
              i < j =>
                 \A n \in 1..Len(snap.segment[i].segment) :
                    (\E m \in 1..Len(snap.segment[j].segment) :
                        snap.segment[j].segment[m] = snap.segment[i].segment[n])
                    => (n - 1) \in snap.segment[i].deleted

\* every submitted batch has returned and the batches were applied in the
\* order they were submitted
AppliedInSubmissionOrder ==
    /\ \A p \in Calls : pc[p] \in {"idle", "done"}
    /\ \A i \in 1..Len(published) : published[i] = i

\* C3: once the batches have been applied in submission order, an ID whose
\* last batch upserted it has exactly one live document, in that batch's
\* segment, and an ID whose last batch deleted it has none
C3_OneLivePerID ==
    AppliedInSubmissionOrder =>
        \A d \in DocIDs :
            LET touch == {p \in Calls : pc[p] = "done" /\ d \in DOMAIN batch[p].IndexOps}
                last == CHOOSE p \in touch : \A q \in touch : q <= p
                live == LiveFor(snapshots[root], d)
            IN touch # {} =>
                  IF batch[last].IndexOps[d] = Doc
                  THEN /\ Cardinality(live) = 1
                       /\ \A x \in live : x[1] = introduction[last].id
                  ELSE live = {}

\* the effects of call p that no later batch can undo are in snap
IncludesBatch(snap, p) ==
    /\ HasSegment(snap, p)
    /\ \A i \in 1..Len(snap.segment) :
          snap.segment[i].id \in DOMAIN introduction[p].obsoletes
             => introduction[p].obsoletes[snap.segment[i].id] \subseteq snap.segment[i].deleted

\* C4: a Batch call that has returned was applied, published and signalled,
\* and a Reader obtained after it returned shows a snapshot with its effects
C4_SynchronousCommit ==
    /\ \A p \in Calls :
          pc[p] = "done" =>
             applied[p] /\ Published(p) /\ IncludesBatch(snapshots[root], p)
    /\ \A r \in 1..Len(readers) :
          \A p \in readers[r].returned : IncludesBatch(ReaderSnapshot(readers[r]), p)

\* a Reader was obtained after a Batch call had returned
C4_Witness ==
    \E r \in 1..Len(readers) :
        \E p \in readers[r].returned : batch[p].IndexOps # EmptyMap

\* C5: what a Reader shows is the root snapshot as it was when Reader() was
\* called, whatever has been published since
C5_ReadStability ==
    \A r \in 1..Len(readers) : ReaderSnapshot(readers[r]) = readers[r].atCall

\* a Reader taken before an introduction that has since been published
C5_Witness ==
    \E r \in 1..Len(readers) :
        /\ readers[r].handle.root # root
        /\ snapshots[root] # readers[r].atCall

\* C6: each published introduction makes the root a snapshot one version
\* above the one it replaced, so after k introductions the root is at k
C6_VersionStepOne ==
    /\ snapshots[root].version = Len(published)
    /\ \A a \in 2..Len(snapshots) : snapshots[a].version = snapshots[a - 1].version + 1
    /\ root = Len(snapshots)

\* two introductions have been published
C6_Witness == Len(published) >= 2 /\ snapshots[root].version = 2

\* C7: every segment ID handed out is greater than all handed out before,
\* so no two introductions share one
C7_SegmentIDsIncrease ==
    /\ \A i \in 1..Len(issued), j \in 1..Len(issued) : i < j => issued[i] < issued[j]
    /\ \A p \in Calls, q \in Calls :
          (p # q /\ introduction[p].id # 0 /\ introduction[q].id # 0)
             => introduction[p].id # introduction[q].id

\* two calls hold an introduction at once, neither yet received by the loop
C7_Witness ==
    \E p \in Calls, q \in Calls :
        /\ p # q
        /\ pc[p] \in {"rlock", "obsoletes", "send"}
        /\ pc[q] \in {"rlock", "obsoletes", "send"}

\* C8: a batch whose introduction was enqueued before another batch was
\* submitted first appears in a snapshot of a lower version
C8_FIFOCommit ==
    \A p \in Calls :
        Published(p) =>
           \A q \in enqueuedAtStart[p] :
              /\ Published(q)
              /\ HasSegment(snapshots[root], q)
              /\ FirstVersion(q) < FirstVersion(p)

\* a batch submitted after another was enqueued has been published
C8_Witness ==
    \E p \in Calls : Published(p) /\ enqueuedAtStart[p] # {}

\* C9: two batches upserting disjoint IDs that have both returned are both
\* in the root with all their documents live, at version initial + 2
C9_NoLostUpdate ==
    \A p \in Calls, q \in Calls :
        (/\ p # q
         /\ pc[p] = "done" /\ pc[q] = "done"
         /\ Len(issued) = 2
         /\ Upserts(batch[p].IndexOps) # {} /\ Upserts(batch[q].IndexOps) # {}
         /\ DOMAIN batch[p].IndexOps \cap DOMAIN batch[q].IndexOps = {})
        => /\ HasSegment(snapshots[root], p)
           /\ HasSegment(snapshots[root], q)
           /\ \A d \in Upserts(batch[p].IndexOps) :
                 \E x \in LiveFor(snapshots[root], d) : x[1] = introduction[p].id
           /\ \A d \in Upserts(batch[q].IndexOps) :
                 \E x \in LiveFor(snapshots[root], d) : x[1] = introduction[q].id
           /\ snapshots[root].version = EmptySnapshot.version + 2

\* both batches prepared their introduction against the empty root (they ran
\* concurrently), wrote disjoint IDs and have returned
C9_Witness ==
    \E p \in Calls, q \in Calls :
        /\ p # q
        /\ pc[p] = "done" /\ pc[q] = "done"
        /\ Upserts(batch[p].IndexOps) # {} /\ Upserts(batch[q].IndexOps) # {}
        /\ DOMAIN batch[p].IndexOps \cap DOMAIN batch[q].IndexOps = {}
        /\ DOMAIN introduction[p].obsoletes = {}
        /\ DOMAIN introduction[q].obsoletes = {}

\* C10: an empty batch is introduced like any other (an empty segment, a new
\* version) and leaves the live documents and the internal metadata as they
\* were in the snapshot before
C10_EmptyBatch ==
    /\ \A p \in Calls :
          (pc[p] = "done" /\ batch[p] = EmptyBatch) =>
             /\ Published(p)
             /\ introduction[p].data = MemNew
    /\ \A a \in 2..Len(snapshots) :
          batch[published[a - 1]] = EmptyBatch =>
             /\ snapshots[a].version = snapshots[a - 1].version + 1
             /\ LiveDocs(snapshots[a]) = LiveDocs(snapshots[a - 1])
             /\ snapshots[a].internal = snapshots[a - 1].internal
             /\ Len(snapshots[a].segment) = Len(snapshots[a - 1].segment) + 1

\* an empty batch was published over a snapshot with a live document and
\* internal metadata
C10_Witness ==
    \E a \in 2..Len(snapshots) :
        /\ Len(published) >= a - 1
        /\ batch[published[a - 1]] = EmptyBatch
        /\ LiveDocs(snapshots[a - 1]) # {}
        /\ snapshots[a - 1].internal # EmptyMap

\* C13: whenever Validate has returned for a query, it returned an error if
\* and only if both Min and Max are nil, whatever the two pointers and the
\* values behind them are
C13_ValidateRejectsUnbounded ==
    validateErr # NotReturned =>
        ((validateErr # Nil) <=> (query.Min = Nil /\ query.Max = Nil))

\* Validate accepted a query whose two endpoints are the same non-nil pointer
C13_Witness ==
    /\ validateErr = Nil
    /\ query.Min # Nil
    /\ query.Min = query.Max

\* every introduction loop that was started has exited
LoopsExited == opened /\ \A l \in MainLoops : loopPc[l] = "exited"

\* C11: once Close has been called, every Batch call that is in flight or is
\* started afterwards eventually returns
C11_ShutdownLiveness ==
    \A p \in Calls : (closed /\ pc[p] \notin {"idle", "done"}) ~> (pc[p] = "done")

\* a Batch call that returned nil was applied and published
NilOnlyIfCommitted ==
    \A p \in Calls :
        (pc[p] = "done" /\ batchErr[p] = Nil) =>
            (applied[p] /\ Published(p) /\ HasSegment(snapshots[root], p))

\* C12: a Batch call that returned nil was applied and published; a call that
\* returned without being published returned an error; and a call that has
\* reached the introductions channel when every loop has exited is not
\* blocked there, it can go on to return
C12_SuccessOnlyIfCommitted ==
    /\ NilOnlyIfCommitted
    /\ \A p \in Calls :
          (pc[p] = "done" /\ ~Published(p)) => batchErr[p] \notin {Nil, NotReturned}
    /\ \A p \in Calls :
          (LoopsExited /\ pc[p] \in {"send", "wait"} /\ ~applied[p])
             => ENABLED BatchStep(p)

\* the loops that hold an introduction they have received and not yet
\* finished publishing
Applying == {l \in AllLoops : loopPc[l] \in {"build", "lock", "swap", "signal"}}

\* C14: every step that changes the root pointer is the swap step of the
\* introduction loop started in Open, taken while it holds the write lock;
\* and at most one introduction is being applied at any time
C14_SingleWriter ==
    [][/\ root' # root =>
             \E l \in MainLoops :
                 /\ loopPc[l] = "swap"
                 /\ loopPc'[l] = "signal"
                 /\ rootLock.writer
       /\ Cardinality(Applying') <= 1]_vars

\* the loop holds the write lock for the swap while another call, its
\* introduction ready, waits on the channel
C14_Witness ==
    /\ \E l \in MainLoops : loopPc[l] = "swap" /\ rootLock.writer
    /\ \E p \in Calls : pc[p] = "send"

\* call p is inside prepareSegment's obsoletes loop with a segment to query
InDocNumbers(p) == pc[p] = "obsoletes" /\ Len(snapshots[root].segment) > 0

\* C15: no submitter runs a segment's DocNumbers query while it holds the
\* root read lock, so no publish waits for the write lock because of it
C15_LockFreeObsoletes ==
    \A p \in Calls :
        InDocNumbers(p) =>
            /\ rootLock.readers = 0
            /\ \A l \in AllLoops : loopPc[l] = "lock" => ENABLED LoopLock(l)

\* call p has built its segment and created its introduction
SegmentBuilt(p) == pc[p] \in {"rlock", "obsoletes", "send", "wait", "done"}

\* the documents batch b upserts
UpsertedDocs(b) == {d \in DOMAIN b.IndexOps : b.IndexOps[d] = Doc}

\* C16: a call that has built its segment received one analysis result per
\* upserted document, no more (nothing of it is left queued, in analysis or
\* in its result channel) and no fewer; its segment holds exactly those
\* results and is the empty segment when it upserts nothing; no introduction
\* exists before the results are in; and every call creates one segment
\* and one introduction, received by the loop at most once
C16_AnalysisCollection ==
    /\ \A p \in Calls :
          SegmentBuilt(p) =>
             /\ Len(analysisResults[p]) = Cardinality(UpsertedDocs(batch[p]))
             /\ {analysisResults[p][i] : i \in 1..Len(analysisResults[p])}
                    = UpsertedDocs(batch[p])
             /\ resultChan[p] = <<>>
             /\ toQueue[p] = {}
             /\ \A w \in inAnalysis : w[1] # p
             /\ introduction[p].data = analysisResults[p]
             /\ UpsertedDocs(batch[p]) = {} => introduction[p].data = MemNew
             /\ introduction[p].id # 0
    /\ \A p \in Calls : pc[p] \in {"idle", "analysis"} => introduction[p] = NoIntroduction
    /\ Len(issued) = Cardinality({p \in Calls : SegmentBuilt(p)})
    /\ \A i \in 1..Len(published), j \in 1..Len(published) :
          i # j => published[i] # published[j]

\* one call built a segment from two analysis results with a single worker
\* and another, a pure deletion, built the empty segment
C16_Witness ==
    \E p \in Calls, q \in Calls :
        /\ SegmentBuilt(p) /\ Len(analysisResults[p]) = 2
        /\ SegmentBuilt(q) /\ batch[q].IndexOps # EmptyMap
        /\ UpsertedDocs(batch[q]) = {}

\* what introduction intro computed as obsolete in the segment with ID sid
ObsoletesFor(intro, sid) ==
    IF sid \in DOMAIN intro.obsoletes THEN intro.obsoletes[sid] ELSE {}

\* C17: from each published snapshot to the next, every segment stays at its
\* place with its ID and data, its deletion bitmap is the earlier bitmap
\* unioned with what the introduction computed for that segment (so it only
\* grows), and the one appended segment is the introduction's, with an
\* empty bitmap
C17_BitmapsOnlyGrow ==
    \A a \in 2..Len(snapshots) :
        LET prev == snapshots[a - 1]
            cur == snapshots[a]
            n == Len(prev.segment)
        IN /\ Len(published) >= a - 1
           /\ Len(cur.segment) = n + 1
           /\ \A i \in 1..n :
                 /\ cur.segment[i].id = prev.segment[i].id
                 /\ cur.segment[i].segment = prev.segment[i].segment
                 /\ prev.segment[i].deleted \subseteq cur.segment[i].deleted
                 /\ cur.segment[i].deleted =
                        prev.segment[i].deleted
                           \cup ObsoletesFor(introduction[published[a - 1]],
                                             prev.segment[i].id)
           /\ cur.segment[n + 1].id = introduction[published[a - 1]].id
           /\ cur.segment[n + 1].deleted = {}

\* an introduction enlarged the bitmap of a segment that was already there
C17_Witness ==
    \E a \in 2..Len(snapshots) :
        \E i \in 1..Len(snapshots[a - 1].segment) :
            /\ snapshots[a].segment[i].deleted # snapshots[a - 1].segment[i].deleted
            /\ snapshots[a].segment[i].deleted # {}

\* C18: the snapshot an introduction publishes maps every key its batch sets
\* to the value set, lacks every key its batch deletes and agrees with the
\* snapshot before on every other key; every publication adds a snapshot
\* to those that exist, the first of which has no internal metadata, and a
\* snapshot pinned by a Reader keeps the metadata it had when it was pinned
C18_InternalVersioned ==
    /\ Len(snapshots) = Len(published) + 1
    /\ snapshots[1].internal = EmptyMap
    /\ \A a \in 2..Len(snapshots) :
          LET ops == batch[published[a - 1]].InternalOps
              prev == snapshots[a - 1].internal
              cur == snapshots[a].internal
          IN /\ DOMAIN cur \subseteq Keys
             /\ \A k \in Keys :
                   /\ (k \in DOMAIN ops /\ ops[k] # Nil) =>
                          (k \in DOMAIN cur /\ cur[k] = ops[k])
                   /\ (k \in DOMAIN ops /\ ops[k] = Nil) => k \notin DOMAIN cur
                   /\ k \notin DOMAIN ops =>
                          /\ (k \in DOMAIN cur) <=> (k \in DOMAIN prev)
                          /\ k \in DOMAIN prev => cur[k] = prev[k]
    /\ \A r \in 1..Len(readers) :
          ReaderSnapshot(readers[r]).internal = readers[r].atCall.internal

\* a Reader still shows a key that a batch published later has deleted
C18_Witness ==
    \E r \in 1..Len(readers) :
        /\ ReaderSnapshot(readers[r]).internal # EmptyMap
        /\ snapshots[root].internal = EmptyMap
        /\ \E p \in Calls :
              /\ Published(p)
              /\ \E k \in DOMAIN batch[p].InternalOps : batch[p].InternalOps[k] = Nil

\* C19: on an opened index that is never closed, under fair scheduling,
\* every Batch call that has been submitted eventually returns
C19_CommitLiveness ==
    \A p \in Calls : (pc[p] # "idle") ~> (pc[p] = "done")

\* two calls ran side by side and both returned, one of them with more
\* upserts than there are analysis workers
C19_Witness ==
    \E p \in Calls, q \in Calls :
        /\ p # q
        /\ pc[p] = "done" /\ pc[q] = "done"
        /\ Cardinality(UpsertedDocs(batch[p])) > NumWorkers
        /\ q \notin enqueuedAtStart[p] /\ p \notin enqueuedAtStart[q]

\* C20, as claimed: in every published snapshot the segment entries are in
\* strictly increasing segment-ID order
C20_SnapshotOrderIsIDOrder ==
    \A a \in 1..Len(snapshots) :
        \A i \in 1..Len(snapshots[a].segment), j \in 1..Len(snapshots[a].segment) :
            i < j => snapshots[a].segment[i].id < snapshots[a].segment[j].id

\* C20, amended: in every published snapshot the segment entries carry
\* pairwise distinct IDs and stand in the order in which the loop received
\* and applied their introductions
C20_SnapshotOrderIsApplicationOrder ==
    \A a \in 1..Len(snapshots) :
        LET seg == snapshots[a].segment
        IN /\ Len(seg) = a - 1
           /\ Len(published) >= a - 1
           /\ \A i \in 1..Len(seg) : seg[i].id = introduction[published[i]].id
           /\ \A i \in 1..Len(seg), j \in 1..Len(seg) : i # j => seg[i].id # seg[j].id

\* a published snapshot lists a segment with a larger ID before one with a
\* smaller ID
C20_Witness ==
    \E a \in 1..Len(snapshots) :
        \E i \in 1..Len(snapshots[a].segment), j \in 1..Len(snapshots[a].segment) :
            i < j /\ snapshots[a].segment[i].id > snapshots[a].segment[j].id

====
